---- MODULE Spec2Model ----
(***************************************************************************)
(* ChaCha20 keystream generator (src/src/chacha20.rs) and its little-      *)
(* endian word decoders (src/src/byte_manipulation.rs).                    *)
(*                                                                         *)
(* Representation.  TLC's integers are 32-bit signed, so a Rust u32 cannot *)
(* be one TLC integer.  A u32 v is the pair <<hi, lo>> of its 16-bit       *)
(* halves, v = hi * 2^16 + lo with hi, lo \in 0..65535.  Every u32         *)
(* operator of the source (<<, >>, |, &, ^, wrapping_add) is defined on    *)
(* such pairs and computes the 32-bit result exactly.  A u8 is an integer  *)
(* in 0..255; a byte slice is a sequence of u8 (index 1 of the sequence is *)
(* index 0 of the slice); a [u32; 16] is a function on 0..15.              *)
(*                                                                         *)
(* Panics.  A Rust panic (a failed assert_eq!, a slice out of range, a     *)
(* shift by 32 or more or an arithmetic overflow, which the debug profile  *)
(* used by `cargo test` checks) is the value Panic.                        *)
(***************************************************************************)
EXTENDS Integers, Sequences, FiniteSets

VARIABLES
    status,     \* "uninit": no generator yet; "ready": a ChaCha20 value exists; "panicked"
    state,      \* ChaCha20.state, the [u32; 16] of the generator (Panic when there is none)
    key,        \* the key argument of the call of new (history)
    nonce,      \* the nonce argument of the call of new (history)
    counter,    \* the counter argument of the call of new (history)
    built,      \* the state as new returned it (history)
    pre,        \* the state as it was when the last next() was entered (history)
    blocks,     \* the blocks returned by the calls of next(), in call order (history)
    rots,       \* the rotate_left calls of the last next(): <<value, shift, result>> (history)
    arr,        \* the argument of a decoder call
    res,        \* the result of a decoder call
    op          \* which decoder was called: "none", "u8_array", "string"

vars == <<status, state, key, nonce, counter, built, pre, blocks, rots, arr, res, op>>

\* The value of a panicked computation, and of "no value".
Panic == <<>>

(***************************************************************************)
(* u32 arithmetic on <<hi, lo>> pairs                                      *)
(***************************************************************************)
Half == 2 ^ 16

IsU32(w) == /\ w \in Seq(Int)
            /\ Len(w) = 2
            /\ w[1] \in 0..(Half - 1)
            /\ w[2] \in 0..(Half - 1)

\* `x as u32` for a u8 or a small literal x < 2^16.
U32(x) == <<0, x>>

\* A u32 literal written as its two 16-bit halves, 0xHHHHLLLL.
Lit(hi, lo) == <<hi, lo>>

RECURSIVE Xor16(_, _)
Xor16(a, b) == IF a = 0 THEN b
               ELSE IF b = 0 THEN a
               ELSE ((a + b) % 2) + 2 * Xor16(a \div 2, b \div 2)

RECURSIVE Or16(_, _)
Or16(a, b) == IF a = 0 THEN b
              ELSE IF b = 0 THEN a
              ELSE (IF a % 2 = 1 \/ b % 2 = 1 THEN 1 ELSE 0) + 2 * Or16(a \div 2, b \div 2)

RECURSIVE And16(_, _)
And16(a, b) == IF a = 0 \/ b = 0 THEN 0
               ELSE ((a % 2) * (b % 2)) + 2 * And16(a \div 2, b \div 2)

\* u32 ^ u32, u32 | u32, u32 & u32
BitXor(x, y) == <<Xor16(x[1], y[1]), Xor16(x[2], y[2])>>
BitOr(x, y) == <<Or16(x[1], y[1]), Or16(x[2], y[2])>>
BitAnd(x, y) == <<And16(x[1], y[1]), And16(x[2], y[2])>>

\* u32 << n: bits shifted out at the top are lost; n >= 32 panics.
Shl(w, n) ==
    IF n \notin 0..31 THEN Panic
    ELSE IF n = 0 THEN w
    ELSE IF n < 16 THEN <<(w[1] % (2 ^ (16 - n))) * (2 ^ n) + (w[2] \div (2 ^ (16 - n))),
                          (w[2] % (2 ^ (16 - n))) * (2 ^ n)>>
    ELSE <<(w[2] % (2 ^ (32 - n))) * (2 ^ (n - 16)), 0>>

\* u32 >> n: logical shift; n >= 32 panics.
Shr(w, n) ==
    IF n \notin 0..31 THEN Panic
    ELSE IF n = 0 THEN w
    ELSE IF n < 16 THEN <<w[1] \div (2 ^ n),
                          (w[1] % (2 ^ n)) * (2 ^ (16 - n)) + (w[2] \div (2 ^ n))>>
    ELSE <<0, w[1] \div (2 ^ (n - 16))>>

\* u32::wrapping_add: the sum modulo 2^32, never a panic.
wrapping_add(x, y) ==
    LET lo == x[2] + y[2]
        hi == x[1] + y[1] + (lo \div Half)
    IN  <<hi % Half, lo % Half>>

(***************************************************************************)
(* byte_manipulation.rs                                                    *)
(***************************************************************************)
\* &s[start..end] of a slice s: panics when the range is out of bounds.
Slice(s, start, end) ==
    IF start <= end /\ end <= Len(s) THEN SubSeq(s, start + 1, end) ELSE Panic

\* Mutant: the bytes assembled in big-endian order.
u8_array_to_u32_be(a) ==
    IF Len(a) # 4 THEN Panic
    ELSE LET o0 == Lit(0, 0)
             o1 == BitOr(o0, BitAnd(Lit(0, 255), U32(a[4])))
             o2 == BitOr(o1, BitAnd(Lit(0, 65280), Shl(U32(a[3]), 8)))
             o3 == BitOr(o2, BitAnd(Lit(255, 0), Shl(U32(a[2]), 16)))
             o4 == BitOr(o3, BitAnd(Lit(65280, 0), Shl(U32(a[1]), 24)))
         IN  o4

u8_array_to_u32_le(a) ==
    IF Len(a) # 4 THEN Panic
    ELSE LET o0 == Lit(0, 0)
             o1 == BitOr(o0, BitAnd(Lit(0, 255), U32(a[1])))
             o2 == BitOr(o1, BitAnd(Lit(0, 65280), Shl(U32(a[2]), 8)))
             o3 == BitOr(o2, BitAnd(Lit(255, 0), Shl(U32(a[3]), 16)))
             o4 == BitOr(o3, BitAnd(Lit(65280, 0), Shl(U32(a[4]), 24)))
         IN  o4

\* The loop of string_to_u32_le over string.bytes().enumerate(), bytes i.. of s
\* (i counts from 0) folded into output.
RECURSIVE string_loop(_, _, _)
string_loop(s, i, output) ==
    IF i >= Len(s) THEN output
    ELSE string_loop(s, i + 1,
             BitOr(output, BitAnd(Shl(Lit(0, 255), i * 8), Shl(U32(s[i + 1]), i * 8))))

\* A &str is the sequence of its UTF-8 bytes.
string_to_u32_le(s) ==
    IF Len(s) # 4 THEN Panic ELSE string_loop(s, 0, Lit(0, 0))

(***************************************************************************)
(* chacha20.rs                                                             *)
(***************************************************************************)
KeyLen == 32
NonceLen == 12

\* Mutant: the key offset of the outer loop taken as i * 8.
key_word_offset8(k, i, j) ==
    LET array_start_offset == (i * 8) + (j * 4)
        array_end_offset == array_start_offset + 4
    IN  u8_array_to_u32_le(Slice(k, array_start_offset, array_end_offset))

\* The body of the key loop of new: the value stored in state[4 + (i * 4) + j].
key_word(k, i, j) ==
    LET array_start_offset == (i * 16) + (j * 4)
        array_end_offset == array_start_offset + 4
    IN  u8_array_to_u32_le(Slice(k, array_start_offset, array_end_offset))

\* The body of the nonce loop of new: the value stored in state[13 + i].
nonce_word(n, i) ==
    LET array_start_offset == i * 4
        array_end_offset == array_start_offset + 4
    IN  u8_array_to_u32_le(Slice(n, array_start_offset, array_end_offset))

\* new after its two assertions: the state array it fills.
new_state(k, n, c) ==
    [x \in 0..15 |->
        IF x = 0 THEN Lit(24944, 30821)          \* 0x61707865
        ELSE IF x = 1 THEN Lit(13088, 25710)     \* 0x3320646e
        ELSE IF x = 2 THEN Lit(31074, 11570)     \* 0x79622d32
        ELSE IF x = 3 THEN Lit(27424, 25972)     \* 0x6b206574
        ELSE IF x < 12 THEN key_word(k, (x - 4) \div 4, (x - 4) % 4)
        ELSE IF x = 12 THEN c
        ELSE nonce_word(n, x - 13)]

\* Mutant: new without its assertions.  A key or nonce that is too short panics
\* in the slicing, one that is too long is silently truncated.
new_noassert(k, n, c) ==
    IF Len(k) < KeyLen \/ Len(n) < NonceLen THEN Panic ELSE new_state(k, n, c)

\* ChaCha20::new
new(k, n, c) ==
    IF Len(k) # KeyLen THEN Panic
    ELSE IF Len(n) # NonceLen THEN Panic
    ELSE new_state(k, n, c)

\* Mutant: the right shift by shift instead of 32 - shift.
rotate_left_same_shift(value, shift) ==
    IF shift \notin 0..31 THEN Panic
    ELSE BitOr(Shl(value, shift), Shr(value, shift))

\* ChaCha20::rotate_left.  Both shifts are checked: value << shift panics for
\* shift >= 32, 32 - shift underflows for shift > 32, value >> 32 panics for shift = 0.
rotate_left(value, shift) ==
    IF shift \notin 0..31 \/ (32 - shift) \notin 0..31 THEN Panic
    ELSE BitOr(Shl(value, shift), Shr(value, 32 - shift))

(* The working buffer of block is the record m: m.w is working_state, m.rots  *)
(* the log of the rotate_left calls made on it so far, m.ok is FALSE once one *)
(* of them panicked (the statements after a panic do not run).                *)
Store(m, d, value, shift, r) ==
    IF r = Panic
    THEN [m EXCEPT !.ok = FALSE, !.rots = Append(@, <<value, shift, Panic>>)]
    ELSE [m EXCEPT !.w[d] = r, !.rots = Append(@, <<value, shift, r>>)]

RotValue(m, d, value, shift) == Store(m, d, value, shift, rotate_left(value, shift))

\* state[d] = ChaCha20::rotate_left(state[d] ^ state[other], shift)
Rot(m, d, other, shift) ==
    IF ~m.ok THEN m ELSE RotValue(m, d, BitXor(m.w[d], m.w[other]), shift)

\* state[x] = state[x].wrapping_add(state[y])
Add(m, x, y) ==
    IF ~m.ok THEN m ELSE [m EXCEPT !.w[x] = wrapping_add(m.w[x], m.w[y])]

\* Mutant: the last rotation by 8 instead of 7.
round_rot8(m, vector) ==
    Rot(Add(
    Rot(Add(
    Rot(Add(
    Rot(Add(m, vector[1], vector[2]), vector[4], vector[1], 16),
                vector[3], vector[4]), vector[2], vector[3], 12),
                vector[1], vector[2]), vector[4], vector[1], 8),
                vector[3], vector[4]), vector[2], vector[3], 8)

\* ChaCha20::round with (a, b, c, d) = vector: its four pairs of statements, the
\* first pair innermost.
round(m, vector) ==
    Rot(Add(
    Rot(Add(
    Rot(Add(
    Rot(Add(m, vector[1], vector[2]), vector[4], vector[1], 16),
                vector[3], vector[4]), vector[2], vector[3], 12),
                vector[1], vector[2]), vector[4], vector[1], 8),
                vector[3], vector[4]), vector[2], vector[3], 7)

\* The calls round(&mut working_state, calls[i]), round(&mut working_state,
\* calls[i + 1]), ... in order.
RECURSIVE round_calls(_, _, _)
round_calls(m, calls, i) ==
    IF i > Len(calls) \/ ~m.ok THEN m
    ELSE round_calls(round(m, calls[i]), calls, i + 1)

\* One pass of the body of `for _ in 0..10` in block.
double_round(m) ==
    round_calls(m, << <<0, 4, 8, 12>>,     \* col 0
                      <<1, 5, 9, 13>>,     \* col 1
                      <<2, 6, 10, 14>>,    \* col 2
                      <<3, 7, 11, 15>>,    \* col 3
                      <<0, 5, 10, 15>>,    \* diagonal 0
                      <<1, 6, 11, 12>>,    \* diagonal 1
                      <<2, 7, 8, 13>>,     \* diagonal 2
                      <<3, 4, 9, 14>> >>,  \* diagonal 3
                1)

RECURSIVE rounds_loop(_, _)
rounds_loop(m, n) ==
    IF n = 0 \/ ~m.ok THEN m ELSE rounds_loop(double_round(m), n - 1)

\* Mutant: the rounds run on self.state itself instead of a clone.
block_inplace(self) ==
    LET working_state == [w |-> self, rots |-> <<>>, ok |-> TRUE]
        worked == rounds_loop(working_state, 10)
    IN  [self |-> worked.w,
         ret  |-> IF worked.ok
                  THEN [i \in 0..15 |-> wrapping_add(worked.w[i], worked.w[i])]
                  ELSE Panic,
         rots |-> worked.rots]

\* Mutant: the feed-forward loop left out.
block_no_feed_forward(self) ==
    LET working_state == [w |-> self, rots |-> <<>>, ok |-> TRUE]
        worked == rounds_loop(working_state, 10)
    IN  [self |-> self,
         ret  |-> IF worked.ok THEN worked.w ELSE Panic,
         rots |-> worked.rots]

\* ChaCha20::block(&mut self): [self: the state afterwards, ret: the block returned
\* (Panic if it panicked), rots: the rotate_left calls made].
block(self) ==
    LET working_state == [w |-> self, rots |-> <<>>, ok |-> TRUE]
        worked == rounds_loop(working_state, 10)
    IN  [self |-> self,
         ret  |-> IF worked.ok
                  THEN [i \in 0..15 |-> wrapping_add(worked.w[i], self[i])]
                  ELSE Panic,
         rots |-> worked.rots]

\* Mutant: the counter incremented before the block is computed.
next_incr_first(self) ==
    LET b == block([self EXCEPT ![12] = wrapping_add(self[12], U32(1))])
    IN  [self |-> b.self, ret |-> b.ret, rots |-> b.rots]

\* Mutant: `self.state[12] += 1`, an overflow-checked addition.
next_checked_add(self) ==
    LET b == block(self)
    IN  IF b.ret = Panic \/ b.self[12] = <<65535, 65535>>
        THEN [self |-> b.self, ret |-> Panic, rots |-> b.rots]
        ELSE [self |-> [b.self EXCEPT ![12] = wrapping_add(b.self[12], U32(1))],
              ret  |-> b.ret,
              rots |-> b.rots]

\* Mutant: the counter update left out.
next_no_incr(self) ==
    LET b == block(self)
    IN  [self |-> b.self, ret |-> b.ret, rots |-> b.rots]

\* ChaCha20::next(&mut self)
next(self) ==
    LET b == block(self)
    IN  IF b.ret = Panic
        THEN [self |-> b.self, ret |-> Panic, rots |-> b.rots]
        ELSE [self |-> [b.self EXCEPT ![12] = wrapping_add(b.self[12], U32(1))],
              ret  |-> b.ret,
              rots |-> b.rots]

(***************************************************************************)
(* Inputs                                                                  *)
(***************************************************************************)
MaxCalls == 3

KeyZero == [i \in 1..32 |-> 0]
KeySeq == [i \in 1..32 |-> i - 1]
KeyHigh == [i \in 1..32 |-> 256 - i]
Keys == {KeyZero, KeySeq, KeyHigh, SubSeq(KeySeq, 1, 31), Append(KeySeq, 32)}

NonceZero == [i \in 1..12 |-> 0]
NonceRfc == <<0, 0, 0, 9, 0, 0, 0, 74, 0, 0, 0, 0>>
NonceWords == <<9, 0, 0, 0, 74, 0, 0, 0, 0, 0, 0, 0>>
NonceHigh == [i \in 1..12 |-> 243 + i]
Nonces == {NonceZero, NonceRfc, NonceWords, NonceHigh,
           SubSeq(NonceHigh, 1, 11), Append(NonceRfc, 1)}

Counters == {Lit(0, 0), Lit(0, 1), Lit(0, 65535), Lit(65535, 65534), Lit(65535, 65535)}

(***************************************************************************)
(* The generator: new, then calls of next                                  *)
(***************************************************************************)
Init ==
    /\ status = "uninit"
    /\ state = Panic
    /\ key = <<>>
    /\ nonce = <<>>
    /\ counter = Lit(0, 0)
    /\ built = Panic
    /\ pre = Panic
    /\ blocks = <<>>
    /\ rots = <<>>
    /\ arr = <<>>
    /\ res = Panic
    /\ op = "none"

CallNew ==
    /\ status = "uninit"
    /\ \E k \in Keys, n \in Nonces, c \in Counters :
          LET s == new(k, n, c)
          IN  /\ key' = k
              /\ nonce' = n
              /\ counter' = c
              /\ state' = s
              /\ built' = s
              /\ status' = IF s = Panic THEN "panicked" ELSE "ready"
    /\ UNCHANGED <<pre, blocks, rots, arr, res, op>>

CallNext ==
    /\ status = "ready"
    /\ Len(blocks) < MaxCalls
    /\ LET r == next(state)
       IN  /\ pre' = state
           /\ state' = r.self
           /\ rots' = r.rots
           /\ IF r.ret = Panic
              THEN status' = "panicked" /\ blocks' = blocks
              ELSE status' = status /\ blocks' = Append(blocks, r.ret)
    /\ UNCHANGED <<key, nonce, counter, built, arr, res, op>>

Next == CallNew \/ CallNext

Spec == Init /\ [][Next]_vars

(***************************************************************************)
(* next() from arbitrary states of 16 words                                *)
(***************************************************************************)
ArbWords == {Lit(0, 0), Lit(65535, 65535), Lit(32768, 1), Lit(4660, 22136)}

Fill(a, b, pos) == [i \in 0..15 |-> IF i = pos THEN b ELSE a]

ArbStates == {Fill(a, b, pos) : a \in ArbWords, b \in ArbWords, pos \in 0..15}

InitBlock ==
    /\ status = "ready"
    /\ state \in ArbStates
    /\ built = state
    /\ counter = state[12]
    /\ key = <<>>
    /\ nonce = <<>>
    /\ pre = Panic
    /\ blocks = <<>>
    /\ rots = <<>>
    /\ arr = <<>>
    /\ res = Panic
    /\ op = "none"

NextBlock == CallNext

SpecBlock == InitBlock /\ [][NextBlock]_vars

(***************************************************************************)
(* The decoders on their own                                               *)
(***************************************************************************)
MaxArrLen == 5
MaxChars == 4

SampleBytes == {0, 1, 65, 128, 255}

ByteArrays == UNION {[1..n -> SampleBytes] : n \in 0..MaxArrLen}

\* UTF-8 encodings of the characters U+0041, U+0001, U+00E9, U+20AC, U+1F600.
Chars == {<<65>>, <<1>>, <<195, 169>>, <<226, 130, 172>>, <<240, 159, 152, 128>>}

RECURSIVE Concat(_)
Concat(cs) == IF cs = <<>> THEN <<>> ELSE Head(cs) \o Concat(Tail(cs))

\* The byte sequences of the strings of at most MaxChars of these characters.
Strings == {Concat(cs) : cs \in UNION {[1..n -> Chars] : n \in 0..MaxChars}}

InitDecode ==
    /\ status = "uninit"
    /\ state = Panic
    /\ key = <<>>
    /\ nonce = <<>>
    /\ counter = Lit(0, 0)
    /\ built = Panic
    /\ pre = Panic
    /\ blocks = <<>>
    /\ rots = <<>>
    /\ arr \in ByteArrays \cup Strings
    /\ res = Panic
    /\ op = "none"

CallU8 ==
    /\ op = "none"
    /\ res' = u8_array_to_u32_le(arr)
    /\ op' = "u8_array"
    /\ UNCHANGED <<status, state, key, nonce, counter, built, pre, blocks, rots, arr>>

CallString ==
    /\ op = "none"
    /\ arr \in Strings
    /\ res' = string_to_u32_le(arr)
    /\ op' = "string"
    /\ UNCHANGED <<status, state, key, nonce, counter, built, pre, blocks, rots, arr>>

NextDecode == CallU8 \/ CallString

SpecDecode == InitDecode /\ [][NextDecode]_vars

(***************************************************************************)
(* Test vectors of chacha20.rs (RFC 7539)                                  *)
(***************************************************************************)
\* test::format_expected
format_expected(expected) ==
    [i \in 0..15 |-> u8_array_to_u32_le(Slice(expected, i * 4, (i * 4) + 4))]

\* test_state: expected
Rfc1Bytes ==
    <<16, 241, 231, 228, 209, 59, 89, 21,
      80, 15, 221, 31, 163, 32, 113, 196,
      199, 209, 244, 199, 51, 192, 104, 3,
      4, 34, 170, 154, 195, 212, 108, 78,
      210, 130, 100, 70, 7, 159, 170, 9,
      20, 194, 215, 5, 217, 139, 2, 162,
      181, 18, 156, 209, 222, 22, 78, 185,
      203, 208, 131, 232, 162, 80, 60, 78>>

\* test_multiple_states: the first expected_state
Rfc2FirstBytes ==
    <<118, 184, 224, 173, 160, 241, 61, 144,
      64, 93, 106, 229, 83, 134, 189, 40,
      189, 210, 25, 184, 160, 141, 237, 26,
      168, 54, 239, 204, 139, 119, 13, 199,
      218, 65, 89, 124, 81, 87, 72, 141,
      119, 36, 224, 63, 184, 216, 74, 55,
      106, 67, 184, 244, 21, 24, 161, 28,
      195, 135, 182, 105, 178, 238, 101, 134>>

\* test_multiple_states: the second expected_state
Rfc2SecondBytes ==
    <<159, 7, 231, 190, 85, 81, 56, 122,
      152, 186, 151, 124, 115, 45, 8, 13,
      203, 15, 41, 160, 72, 227, 101, 105,
      18, 198, 83, 62, 50, 238, 122, 237,
      41, 183, 33, 118, 156, 230, 78, 67,
      213, 113, 51, 176, 116, 216, 57, 213,
      49, 237, 31, 40, 81, 10, 251, 69,
      172, 225, 10, 31, 75, 121, 77, 111>>

(***************************************************************************)
(* Reference arithmetic for the properties: the numbers the claims speak   *)
(* of, written on <<hi, lo>> pairs without the source's operators.         *)
(***************************************************************************)
MaxU32 == <<65535, 65535>>

\* (w + 1) mod 2^32
Succ32(w) ==
    IF w[2] < 65535 THEN <<w[1], w[2] + 1>>
    ELSE IF w[1] < 65535 THEN <<w[1] + 1, 0>>
    ELSE <<0, 0>>

\* (w + k) mod 2^32 for a small k >= 0
RECURSIVE AddK(_, _)
AddK(w, k) == IF k = 0 THEN w ELSE AddK(Succ32(w), k - 1)

\* (x + y) mod 2^32
Sum32(x, y) ==
    LET lo == x[2] + y[2]
        carry == IF lo >= 65536 THEN 1 ELSE 0
        hi == x[1] + y[1] + carry
    IN  <<IF hi >= 65536 THEN hi - 65536 ELSE hi, IF lo >= 65536 THEN lo - 65536 ELSE lo>>

\* b0 + 2^8*b1 + 2^16*b2 + 2^24*b3
LeWord(b0, b1, b2, b3) == <<b2 + (256 * b3), b0 + (256 * b1)>>

\* The number a pair stands for, when it is below 2^31.
Val(w) == (w[1] * 65536) + w[2]

\* Bit i (0 = least significant) of a u32.
Bit(w, i) == IF i < 16 THEN (w[2] \div (2 ^ i)) % 2 ELSE (w[1] \div (2 ^ (i - 16))) % 2

\* r is value rotated left by shift: bit i of value is bit (i + shift) mod 32 of r.
IsRotl(r, value, shift) ==
    /\ IsU32(r)
    /\ \A i \in 0..31 : Bit(r, (i + shift) % 32) = Bit(value, i)

IsBlock(b) == DOMAIN b = 0..15 /\ \A i \in 0..15 : IsU32(b[i])

\* The quarter-round schedule of the specification: columns, then diagonals.
Quads == << <<0, 4, 8, 12>>, <<1, 5, 9, 13>>, <<2, 6, 10, 14>>, <<3, 7, 11, 15>>,
            <<0, 5, 10, 15>>, <<1, 6, 11, 12>>, <<2, 7, 8, 13>>, <<3, 4, 9, 14>> >>

\* Quarter rounds i..80 of the schedule applied to the buffer m.
RECURSIVE RefRounds(_, _)
RefRounds(m, i) ==
    IF i > 80 \/ ~m.ok THEN m
    ELSE RefRounds(round(m, Quads[((i - 1) % 8) + 1]), i + 1)

\* The working buffer after the 10 double rounds on a copy of s.
Worked(s) == RefRounds([w |-> s, rots |-> <<>>, ok |-> TRUE], 1).w

(***************************************************************************)
(* Properties                                                              *)
(***************************************************************************)

\* C1: the k-th call of next() on a generator built by new(key, nonce, c) returns
\* the block of the state as built with word 12 = (c + k - 1) mod 2^32, so the
\* blocks come in the order of the counter values c, c+1, ..., each computed
\* from the counter before that call's increment.
C1_BlocksInCounterOrder ==
    \A k \in 1..Len(blocks) :
        blocks[k] = block([built EXCEPT ![12] = AddK(counter, k - 1)]).ret

C1_Witness ==
    /\ status = "ready"
    /\ counter = Lit(0, 65535)
    /\ Len(blocks) >= 2
    /\ blocks[1] # blocks[2]

\* C2: every call of next() completes and leaves word 12 = (previous word 12 + 1)
\* mod 2^32; a generator built with counter 2^32 - 1 has word 12 = 0 after one call,
\* which returned a block.
C2_CounterIncrementWraps ==
    /\ pre # Panic =>
          /\ status = "ready"
          /\ Len(blocks) >= 1
          /\ state[12] = Succ32(pre[12])
    /\ (counter = MaxU32 /\ Len(blocks) = 1) =>
          /\ status = "ready"
          /\ state[12] = Lit(0, 0)

C2_Witness ==
    /\ status = "ready"
    /\ counter = MaxU32
    /\ Len(blocks) = 1
    /\ pre[12] = MaxU32
    /\ state[12] = Lit(0, 0)

\* C3: after any calls of next() the state has 16 words and every word but word 12
\* (constants 0-3, key 4-11, nonce 13-15) is as new built it.
C3_OnlyCounterChanges ==
    status = "ready" =>
        /\ DOMAIN state = 0..15
        /\ \A i \in (0..15) \ {12} : state[i] = built[i]

C3_Witness ==
    /\ status = "ready"
    /\ key = KeyHigh
    /\ nonce = NonceHigh
    /\ Len(blocks) >= 2
    /\ state[12] # built[12]
    /\ \A i \in (0..15) \ {12} : state[i] = built[i]

\* C4: new(key, nonce, counter) with a 32-byte key and a 12-byte nonce yields words
\* 0-3 = the four constants, word 4+m = the little-endian value of key bytes
\* 4m..4m+3, word 12 = counter, word 13+m = the little-endian value of nonce bytes
\* 4m..4m+3.
C4_StateLayout ==
    (Len(key) = 32 /\ Len(nonce) = 12 /\ status # "uninit") =>
        /\ DOMAIN built = 0..15
        /\ built[0] = <<24944, 30821>>
        /\ built[1] = <<13088, 25710>>
        /\ built[2] = <<31074, 11570>>
        /\ built[3] = <<27424, 25972>>
        /\ \A m \in 0..7 :
              built[4 + m] = LeWord(key[(4 * m) + 1], key[(4 * m) + 2],
                                    key[(4 * m) + 3], key[(4 * m) + 4])
        /\ built[12] = counter
        /\ \A m \in 0..2 :
              built[13 + m] = LeWord(nonce[(4 * m) + 1], nonce[(4 * m) + 2],
                                     nonce[(4 * m) + 3], nonce[(4 * m) + 4])

C4_Witness ==
    /\ status = "ready"
    /\ blocks = <<>>
    /\ key = KeySeq
    /\ nonce = NonceHigh
    /\ counter = Lit(65535, 65534)
    /\ state[4] = <<770, 256>>
    /\ state[11] = <<7966, 7452>>
    /\ state[12] = <<65535, 65534>>
    /\ state[15] = <<65534, 65020>>

\* C5: new panics, and no generator exists, exactly when the key is not 32 bytes
\* long or the nonce is not 12 bytes long; no state is built from a longer or
\* shorter key or nonce.
C5_LengthValidation ==
    status # "uninit" =>
        /\ (built = Panic) <=> (Len(key) # 32 \/ Len(nonce) # 12)
        /\ (built = Panic) <=> (status = "panicked")
        /\ (built = Panic) => state = Panic

C5_Witness ==
    /\ status = "panicked"
    /\ Len(key) = 33
    /\ Len(nonce) = 12
    /\ state = Panic

\* C6 as stated: with key bytes 0x00..0x1f, counter 1 and state words 13, 14, 15 =
\* 0x00000009, 0x0000004a, 0x00000000, the first block is the RFC 7539 vector.
C6_Original ==
    (/\ status = "ready"
     /\ key = KeySeq
     /\ counter = Lit(0, 1)
     /\ built[13] = <<0, 9>>
     /\ built[14] = <<0, 74>>
     /\ built[15] = <<0, 0>>
     /\ Len(blocks) >= 1) =>
        blocks[1] = format_expected(Rfc1Bytes)

\* C6 (amended): with key bytes 0x00..0x1f, counter 1 and the nonce BYTES
\* 00 00 00 09 00 00 00 4a 00 00 00 00 (state words 13, 14, 15 = 0x09000000,
\* 0x4a000000, 0x00000000), the first block is the little-endian decoding of the
\* RFC 7539 vector 10 f1 e7 e4 ... a2 50 3c 4e.
C6_Rfc7539Vector1 ==
    (/\ status = "ready"
     /\ key = KeySeq
     /\ counter = Lit(0, 1)
     /\ nonce = NonceRfc
     /\ Len(blocks) >= 1) =>
        /\ built[13] = <<2304, 0>>
        /\ built[14] = <<18944, 0>>
        /\ built[15] = <<0, 0>>
        /\ blocks[1] = format_expected(Rfc1Bytes)
        /\ blocks[1][0] = <<58599, 61712>>

C6_Witness ==
    /\ status = "ready"
    /\ key = KeySeq
    /\ counter = Lit(0, 1)
    /\ nonce = NonceRfc
    /\ Len(blocks) = 1
    /\ blocks[1][15] = <<20028, 20642>>

\* C7: with an all-zero key, an all-zero nonce and counter 0 the first next()
\* returns the decoding of 76 b8 e0 ad ... (first word 0xade0b876) and the second
\* the decoding of 9f 07 e7 be ... (first word 0xbee7079f).
C7_Rfc7539MultiBlock ==
    (status = "ready" /\ key = KeyZero /\ nonce = NonceZero /\ counter = Lit(0, 0)) =>
        /\ Len(blocks) >= 1 =>
              /\ blocks[1] = format_expected(Rfc2FirstBytes)
              /\ blocks[1][0] = <<44512, 47222>>
        /\ Len(blocks) >= 2 =>
              /\ blocks[2] = format_expected(Rfc2SecondBytes)
              /\ blocks[2][0] = <<48871, 1951>>

C7_Witness ==
    /\ status = "ready"
    /\ key = KeyZero
    /\ nonce = NonceZero
    /\ counter = Lit(0, 0)
    /\ Len(blocks) >= 2
    /\ blocks[2][0] = <<48871, 1951>>
    /\ state[12] = Lit(0, 2)

\* C8: u8_array_to_u32_le returns arr[0] + 2^8*arr[1] + 2^16*arr[2] + 2^24*arr[3]
\* for every arr of length 4 and panics for every other length; [1,1,1,1] gives
\* 16843009; string_to_u32_le applies the same rule to the bytes of a string, and
\* "AAAA" gives 1094795585.
C8_LittleEndianDecode ==
    /\ op \in {"u8_array", "string"} =>
          IF Len(arr) = 4
          THEN res = LeWord(arr[1], arr[2], arr[3], arr[4])
          ELSE res = Panic
    /\ (op = "u8_array" /\ arr = <<1, 1, 1, 1>>) => Val(res) = 16843009
    /\ (op = "string" /\ arr = <<65, 65, 65, 65>>) => Val(res) = 1094795585

C8_Witness ==
    /\ op = "u8_array"
    /\ arr = <<1, 128, 65, 255>>
    /\ res = <<65345, 32769>>

\* C9: next() is total: from every state of 16 words it returns a block of 16
\* words below 2^32 after 80 quarter rounds; each of the 320 rotate_left calls has
\* a shift of 16, 12, 8, 7 (in that order in every quarter round), so shift and
\* 32 - shift lie in 1..31, and returns the true 32-bit left rotation.
C9_NextIsTotal ==
    pre # Panic =>
        /\ status = "ready"
        /\ Len(blocks) >= 1
        /\ IsBlock(blocks[Len(blocks)])
        /\ IsBlock(state)
        /\ Len(rots) = 320
        /\ \A n \in 1..Len(rots) :
              /\ rots[n][2] = <<16, 12, 8, 7>>[((n - 1) % 4) + 1]
              /\ rots[n][2] \in 1..31
              /\ (32 - rots[n][2]) \in 1..31
              /\ IsRotl(rots[n][3], rots[n][1], rots[n][2])

C9_Witness ==
    /\ status = "ready"
    /\ pre = Fill(Lit(65535, 65535), Lit(32768, 1), 12)
    /\ Len(blocks) = 1
    /\ Len(rots) = 320
    /\ rots[1] = <<Lit(32767, 65535), 16, Lit(65535, 32767)>>

\* C10: the block returned for a state s has word i = (w[i] + s[i]) mod 2^32, w
\* being the buffer after the 10 double rounds (columns, then diagonals) on a copy
\* of s, and s the state as it was when next() was entered, counter included.
C10_FeedForward ==
    (pre # Panic /\ Len(blocks) >= 1) =>
        LET w == Worked(pre)
        IN  \A i \in 0..15 : blocks[Len(blocks)][i] = Sum32(w[i], pre[i])

C10_Witness ==
    /\ status = "ready"
    /\ pre = Fill(Lit(0, 0), Lit(65535, 65535), 12)
    /\ Len(blocks) = 1
    /\ state[12] = Lit(0, 0)
    /\ blocks[1][12] = Sum32(Worked(pre)[12], Lit(65535, 65535))
    /\ blocks[1][12] # Worked(pre)[12]

====
